---- MODULE Spec2Model ----
(***************************************************************************)
(* Model of the automation-condition evaluation engine of                  *)
(* dagster/_core/definitions/asset_automation_evaluator.py.                *)
(*                                                                         *)
(* The recursion of AutomationCondition.evaluate is modelled by an         *)
(* explicit call stack: one frame per active evaluate() call, holding the  *)
(* local variables of that call (context, true_subset, child_evaluations). *)
(***************************************************************************)
EXTENDS Integers, Sequences, FiniteSets, TLC

\* ------------------------------------------------------------------ bounds
\* most children of an AND / OR / NOR node whose children are all rules
MaxChildren == 2
\* largest materialization cap that is tried
MaxCap == 1

\* ------------------------------------------------------------ value domains
\* Optional values: None is the empty sequence, a present value a one-element one
None == <<>>

Some(x) == <<x>>

AssetKeyValue == "asset"

\* the partition keys of the asset; the rules' priority order is the order of the keys
PartitionKeys == {1, 2}

\* AssetKeyPartitionKey(asset_key, partition_key)
AssetKeyPartitionKey(p) == [asset_key |-> AssetKeyValue, partition_key |-> p]

AssetPartitions == {AssetKeyPartitionKey(p) : p \in PartitionKeys}

\* AssetSubset of the one asset: the set of its partition keys
AssetSubsets == SUBSET PartitionKeys

\* AssetSubset.empty / context.empty_subset()
empty_subset == {}

\* AssetSubset.asset_partitions
asset_partitions_of(subset) == {AssetKeyPartitionKey(p) : p \in subset}

\* AssetSubset.from_asset_partitions_set(asset_key, partitions_def, asset_partitions)
from_asset_partitions_set(asset_partitions) ==
    {ap.partition_key : ap \in {a \in asset_partitions : a.asset_key = AssetKeyValue}}

\* AssetSubset.size
size(subset) == Cardinality(subset)

\* ------------------------------------------------------------------ helpers
SeqsUpTo(S, n) == UNION {[1..k -> S] : k \in 0..n}

RECURSIVE SumSeq(_)
SumSeq(s) == IF s = <<>> THEN 0 ELSE Head(s) + SumSeq(Tail(s))

\* ------------------------------------------------------- condition trees
\* AutomationCondition: RuleCondition(rule) | And/Or/NorAutomationCondition(children)
RuleNames == {"r1"}

\* the rule field of a node that is no RuleCondition
NoRule == "-"

RuleCondition(rule) == [kind |-> "rule", rule |-> rule, children |-> <<>>]

AndAutomationCondition(children) == [kind |-> "and", rule |-> NoRule, children |-> children]

OrAutomationCondition(children) == [kind |-> "or", rule |-> NoRule, children |-> children]

NorAutomationCondition(children) == [kind |-> "nor", rule |-> NoRule, children |-> children]

Composite(kind, children) == [kind |-> kind, rule |-> NoRule, children |-> children]

CompositeKinds == {"and", "or", "nor"}

RECURSIVE NumLeaves(_)
NumLeaves(c) ==
    IF c.kind = "rule" THEN 1
    ELSE SumSeq([i \in 1..Len(c.children) |-> NumLeaves(c.children[i])])

Leaves == {RuleCondition(r) : r \in RuleNames}

\* nodes over rules only, with 0..MaxChildren children
Flat == {Composite(k, cs) : k \in CompositeKinds, cs \in SeqsUpTo(Leaves, MaxChildren)}

\* nodes with a node among their children, of at most two rules in all
Nested ==
    LET Inner == {c \in Flat : c.children # <<>>}
    IN  {c \in {Composite(k, cs) : k \in CompositeKinds, cs \in SeqsUpTo(Leaves \cup Inner, 2)} :
            NumLeaves(c) <= 2}

\* the condition trees that are evaluated
Conditions == Leaves \cup Flat \cup Nested

\* ------------------------------------------------------------ rule results
EvaluationData == {"d"}

\* RuleEvaluationResults: a sequence of (evaluation_data, asset_partitions) pairs
RuleResult == [evaluation_data : EvaluationData, asset_partitions : SUBSET AssetPartitions \ {{}}]

\* a rule returns at most two results
RuleEvaluationResults == SeqsUpTo(RuleResult, 2)

\* ------------------------------------------------------------------- state
VARIABLES
    condition,                        \* AssetAutomationEvaluator.condition
    cap_argument,                     \* the max_materializations_per_minute argument of the constructor
    max_materializations_per_minute,  \* AssetAutomationEvaluator.max_materializations_per_minute
    context,                          \* the AssetAutomationEvaluationContext given to evaluate
    pc,                               \* position in AssetAutomationEvaluator.evaluate
    stack,                            \* active AutomationCondition.evaluate calls, outermost first
    condition_evaluation,             \* local of AssetAutomationEvaluator.evaluate
    to_discard,                       \* local of AssetAutomationEvaluator.evaluate
    rule_calls,                       \* every rule.evaluate_for_asset call so far, in order
    returned,                         \* what AssetAutomationEvaluator.evaluate returned
    asset_evaluation,                 \* what ConditionEvaluation.to_evaluation returned
    operands,                         \* <<a, b, c>>: the conditions that are composed with & | ~
    named,                            \* the compositions made so far, in order
    legacy_condition,                 \* the condition given to ConditionEvaluation.from_evaluation
    legacy_evaluation,                \* the AutoMaterializeAssetEvaluation given to it
    reconstructed,                    \* what from_evaluation returned
    op_events,                        \* OpExecutionContext._events
    logged,                           \* every DagsterEvent appended so far, in order
    generators,                       \* the consume_events generators, in the order they were created
    batches,                          \* what each of these generators has yielded so far
    last_call,                        \* the last step taken on the OpExecutionContext
    asset_events,                     \* the _events attribute of the AssetExecutionContext itself
    reported,                         \* what has_events last returned on the AssetExecutionContext
    negation_of,                      \* a condition, a context and the rules' behaviour
    negated,                          \* the results of applying ~ to it once and twice
    both_evaluations                  \* its evaluation and that of its double negation

evaluatorVars == <<condition, cap_argument, max_materializations_per_minute, context, pc, stack,
                   condition_evaluation, to_discard, rule_calls, returned>>

conversionVars == <<asset_evaluation>>

algebraVars == <<operands, named>>

legacyVars == <<legacy_condition, legacy_evaluation, reconstructed>>

eventVars == <<op_events, logged, generators, batches, last_call, asset_events, reported>>

negationVars == <<negation_of, negated, both_evaluations>>

vars == <<evaluatorVars, conversionVars, algebraVars, legacyVars, eventVars, negationVars>>

\* --------------------------------------------------------------- contexts
\* AssetAutomationEvaluationContext.get_root_condition_context()
get_root_condition_context(ctx) == [candidate_subset |-> ctx.candidate_subset]

\* AssetAutomationConditionEvaluationContext.for_child(condition, candidate_subset)
for_child(ctx, child, candidate_subset) == [ctx EXCEPT !.candidate_subset = candidate_subset]

\* AssetAutomationConditionEvaluationContext.with_candidate_subset(candidate_subset)
with_candidate_subset(ctx, candidate_subset) == [ctx EXCEPT !.candidate_subset = candidate_subset]

\* AssetAutomationEvaluationContext.get_new_asset_cursor(to_materialize, to_discard)
get_new_asset_cursor(ctx, to_materialize, discarded) ==
    [previous |-> ctx.cursor, to_materialize |-> to_materialize, to_discard |-> discarded]

\* ------------------------------------------------------ ConditionEvaluation
ConditionEvaluation(cond, true_subset, candidate_subset, results, child_evaluations) ==
    [condition |-> cond,
     true_subset |-> true_subset,
     candidate_subset |-> candidate_subset,
     discard_subset |-> None,
     discard_results |-> <<>>,
     results |-> results,
     child_evaluations |-> child_evaluations]

\* ------------------------------------------------------ RuleCondition.evaluate
\* the loop of lines 238-242: true_subset |= from_asset_partitions_set(..) for each result
RuleTrueSubsetLastOnly(results) ==
    IF results = <<>> THEN empty_subset
    ELSE from_asset_partitions_set(results[Len(results)].asset_partitions)

RECURSIVE RuleTrueSubset(_)
RuleTrueSubset(results) ==
    IF results = <<>> THEN empty_subset
    ELSE from_asset_partitions_set(results[Len(results)].asset_partitions)
            \cup RuleTrueSubset(SubSeq(results, 1, Len(results) - 1))

\* RuleCondition.evaluate, given what rule.evaluate_for_asset(context) returned
RuleConditionEvaluate(cond, ctx, results) ==
    ConditionEvaluation(cond, RuleTrueSubset(results), ctx.candidate_subset, results, <<>>)

\* --------------------------------------- And/Or/NorAutomationCondition.evaluate
InitialTrueSubsetOfAll(cond, ctx) ==
    CASE cond.kind = "and" -> PartitionKeys
      [] cond.kind = "nor" -> PartitionKeys
      [] cond.kind = "or" -> empty_subset
      [] OTHER -> empty_subset

\* a frame holds the locals of one evaluate() call; scope and child_contexts
\* record the context the call was entered with and the contexts it gave its
\* children
InitialTrueSubset(cond, ctx) ==
    CASE cond.kind = "and" -> ctx.candidate_subset
      [] cond.kind = "nor" -> ctx.candidate_subset
      [] cond.kind = "or" -> empty_subset
      [] OTHER -> empty_subset

Frame(cond, ctx) ==
    [condition |-> cond,
     context |-> ctx,
     true_subset |-> InitialTrueSubset(cond, ctx),
     child_evaluations |-> <<>>,
     scope |-> ctx,
     child_contexts |-> <<>>]

\* the context a node passes to its next child (lines 264, 286, 307)
AndChildContextUnnarrowed(ctx, child, true_subset) == ctx

AndChildContext(ctx, child, true_subset) == for_child(ctx, child, true_subset)

OrChildContextNarrowed(ctx, child, true_subset) == with_candidate_subset(ctx, true_subset)

OrChildContext(ctx, child, true_subset) == ctx

NorChildContextUnnarrowed(ctx, child, true_subset) == ctx

NorChildContext(ctx, child, true_subset) == with_candidate_subset(ctx, true_subset)

ChildContext(kind, ctx, child, true_subset) ==
    CASE kind = "and" -> AndChildContext(ctx, child, true_subset)
      [] kind = "or" -> OrChildContext(ctx, child, true_subset)
      [] kind = "nor" -> NorChildContext(ctx, child, true_subset)

\* how a node folds a child's result into its running true_subset (lines 267, 288, 310)
AndAccumulateAsUnion(true_subset, result) == true_subset \cup result.true_subset

AndAccumulate(true_subset, result) == true_subset \cap result.true_subset

OrAccumulateOverwrite(true_subset, result) == result.true_subset

OrAccumulate(true_subset, result) == true_subset \cup result.true_subset

NorAccumulateAsIntersection(true_subset, result) == true_subset \cap result.true_subset

NorAccumulate(true_subset, result) == true_subset \ result.true_subset

Accumulate(kind, true_subset, result) ==
    CASE kind = "and" -> AndAccumulate(true_subset, result)
      [] kind = "or" -> OrAccumulate(true_subset, result)
      [] kind = "nor" -> NorAccumulate(true_subset, result)

\* the ConditionEvaluation a composite node returns (lines 268-273, 289-294, 311-316)
CompositeEvaluation(frame) ==
    ConditionEvaluation(frame.condition, frame.true_subset, frame.context.candidate_subset,
                        <<>>, frame.child_evaluations)

Top == stack[Len(stack)]

ContextAfterCallNarrowedInPlace(caller, callee) == callee.context

\* the caller's context once child.evaluate(context) has returned: the callee
\* rebinds its own local name (lines 264, 286, 307) to new values made by
\* for_child, the caller's value is not written to
ContextAfterCall(caller, callee) == caller.context

\* a finished evaluate() call hands its result to its caller: the parent node
\* appends it and folds it into true_subset, the evaluator keeps the root's
Deliver(result) ==
    IF Len(stack) = 1
    THEN /\ stack' = <<>>
         /\ condition_evaluation' = Some(result)
         /\ pc' = "discard"
    ELSE LET parent == stack[Len(stack) - 1]
             updated == [parent EXCEPT
                            !.context = ContextAfterCall(parent, Top),
                            !.child_evaluations = Append(@, result),
                            !.true_subset = Accumulate(parent.condition.kind, @, result)]
         IN  /\ stack' = Append(SubSeq(stack, 1, Len(stack) - 2), updated)
             /\ UNCHANGED <<condition_evaluation, pc>>

LoopDoneOnceEmpty(frame) ==
    \/ Len(frame.child_evaluations) = Len(frame.condition.children)
    \/ /\ frame.condition.kind \in {"and", "nor"}
       /\ frame.child_evaluations # <<>>
       /\ frame.true_subset = empty_subset

\* `for child in self.children` has run out of children (lines 263, 285, 306)
LoopDone(frame) == Len(frame.child_evaluations) = Len(frame.condition.children)

\* ---------------------------------------------------------------- actions
\* AssetAutomationEvaluator.evaluate, lines 340-341: enter the root condition
EvaluatorStart ==
    /\ pc = "start"
    /\ pc' = "tree"
    /\ stack' = <<Frame(condition, get_root_condition_context(context))>>
    /\ UNCHANGED <<condition, cap_argument, max_materializations_per_minute, context,
                   condition_evaluation, to_discard, rule_calls, returned>>
    /\ UNCHANGED <<conversionVars, algebraVars, legacyVars, eventVars, negationVars>>

NextChildFromRight(frame) ==
    Len(frame.condition.children) - Len(frame.child_evaluations)

\* `for child in self.children`: the index of the child the loop is at
NextChild(frame) == Len(frame.child_evaluations) + 1

\* the position in the tree of the innermost active call: the child indices
\* from the root down to it
NodePath == [i \in 1..(Len(stack) - 1) |-> NextChild(stack[i])]

\* the body of the for loop up to the recursive call: child.evaluate(context)
ChildCall ==
    /\ pc = "tree"
    /\ Top.condition.kind \in CompositeKinds
    /\ ~LoopDone(Top)
    /\ LET frame == Top
           child == frame.condition.children[NextChild(frame)]
           ctx == ChildContext(frame.condition.kind, frame.context, child, frame.true_subset)
           caller == [frame EXCEPT !.context = ctx, !.child_contexts = Append(@, ctx)]
       IN  stack' = SubSeq(stack, 1, Len(stack) - 1) \o <<caller, Frame(child, ctx)>>
    /\ UNCHANGED <<condition, cap_argument, max_materializations_per_minute, context, pc,
                   condition_evaluation, to_discard, rule_calls, returned>>
    /\ UNCHANGED <<conversionVars, algebraVars, legacyVars, eventVars, negationVars>>

\* RuleCondition.evaluate: the rule returns some results
RuleEvaluate ==
    /\ pc = "tree"
    /\ Top.condition.kind = "rule"
    /\ \E results \in RuleEvaluationResults :
        /\ rule_calls' = Append(rule_calls, [rule |-> Top.condition.rule,
                                             node |-> NodePath,
                                             candidate_subset |-> Top.context.candidate_subset,
                                             results |-> results,
                                             raised |-> FALSE])
        /\ Deliver(RuleConditionEvaluate(Top.condition, Top.context, results))
    /\ UNCHANGED <<condition, cap_argument, max_materializations_per_minute, context, to_discard, returned>>
    /\ UNCHANGED <<conversionVars, algebraVars, legacyVars, eventVars, negationVars>>

\* the return statement of an AND / OR / NOR node, after its last child
CompositeReturn ==
    /\ pc = "tree"
    /\ Top.condition.kind \in CompositeKinds
    /\ LoopDone(Top)
    /\ Deliver(CompositeEvaluation(Top))
    /\ UNCHANGED <<condition, cap_argument, max_materializations_per_minute, context, to_discard,
                   rule_calls, returned>>
    /\ UNCHANGED <<conversionVars, algebraVars, legacyVars, eventVars, negationVars>>

\* ---------------------------------------------------------- the discard rule
DiscardRuleName == "discard"

\* DiscardOnMaxMaterializationsExceededRule(limit).evaluate_for_asset(context):
\* of the candidate partitions, in the rule's priority order (here: by key),
\* the first `limit` are kept and the others are returned
DiscardRuleEvaluateForAsset(ctx, limit) ==
    LET candidates == asset_partitions_of(ctx.candidate_subset)
        rank(ap) == Cardinality({other \in candidates : other.partition_key <= ap.partition_key})
        rate_limited == {ap \in candidates : rank(ap) > limit}
    IN  IF rate_limited = {} THEN <<>>
        ELSE <<[evaluation_data |-> "none", asset_partitions |-> rate_limited]>>

DiscardContextUnreplaced(condition_context, evaluation) == condition_context

\* lines 346-348: dataclasses.replace(condition_context, candidate_subset=...)
DiscardContext(condition_context, evaluation) ==
    [condition_context EXCEPT !.candidate_subset = evaluation.true_subset]

ToDiscardSkipped(condition_context, evaluation, cap) == empty_subset

ToDiscardWithoutCap(condition_context, evaluation, cap) == evaluation.true_subset

\* lines 344-353: the subset to discard
ToDiscard(condition_context, evaluation, cap) ==
    IF cap = None THEN empty_subset
    ELSE RuleConditionEvaluate(RuleCondition(DiscardRuleName),
                               DiscardContext(condition_context, evaluation),
                               DiscardRuleEvaluateForAsset(
                                   DiscardContext(condition_context, evaluation), cap[1])).true_subset

EvaluatorResultReduced(ctx, evaluation, discarded) ==
    [condition_evaluation |-> [evaluation EXCEPT !.discard_subset = Some(discarded),
                                                 !.true_subset = @ \ discarded],
     cursor |-> get_new_asset_cursor(ctx, evaluation.true_subset \ discarded, discarded),
     to_discard |-> discarded]

\* lines 355-361: the returned triple
EvaluatorResult(ctx, evaluation, discarded) ==
    [condition_evaluation |-> [evaluation EXCEPT !.discard_subset = Some(discarded)],
     cursor |-> get_new_asset_cursor(ctx, evaluation.true_subset, discarded),
     to_discard |-> discarded]

\* AssetAutomationEvaluator.evaluate, lines 343-361: discard rule and return
EvaluatorFinish ==
    /\ pc = "discard"
    /\ pc' = "done"
    /\ LET evaluation == condition_evaluation[1]
           condition_context == get_root_condition_context(context)
           discard_context == DiscardContext(condition_context, evaluation)
           discarded == ToDiscard(condition_context, evaluation, max_materializations_per_minute)
       IN  /\ to_discard' = discarded
           /\ returned' = Some(EvaluatorResult(context, evaluation, discarded))
           /\ rule_calls' =
                IF max_materializations_per_minute = None THEN rule_calls
                ELSE Append(rule_calls,
                            [rule |-> DiscardRuleName,
                             node |-> <<>>,
                             candidate_subset |-> discard_context.candidate_subset,
                             results |-> DiscardRuleEvaluateForAsset(
                                             discard_context, max_materializations_per_minute[1]),
                             raised |-> FALSE])
    /\ UNCHANGED <<condition, cap_argument, max_materializations_per_minute, context, stack, condition_evaluation>>
    /\ UNCHANGED <<conversionVars, algebraVars, legacyVars, eventVars, negationVars>>

\* ------------------------------------------------------------ a rule raises
PropagateCaughtByCaller(frames) == SubSeq(frames, 1, Len(frames) - 1)

\* an exception raised by rule.evaluate_for_asset leaves every active
\* evaluate() call: none of them has a try statement (lines 233-316)
Propagate(frames) == <<>>

\* RuleCondition.evaluate, line 237: the rule raises
RuleRaise ==
    /\ pc = "tree"
    /\ Top.condition.kind = "rule"
    /\ rule_calls' = Append(rule_calls, [rule |-> Top.condition.rule,
                                         node |-> NodePath,
                                         candidate_subset |-> Top.context.candidate_subset,
                                         results |-> <<>>,
                                         raised |-> TRUE])
    /\ stack' = Propagate(stack)
    /\ pc' = IF Propagate(stack) = <<>> THEN "raised" ELSE "tree"
    /\ UNCHANGED <<condition, cap_argument, max_materializations_per_minute, context,
                   condition_evaluation, to_discard, returned>>
    /\ UNCHANGED <<conversionVars, algebraVars, legacyVars, eventVars, negationVars>>

\* AssetAutomationEvaluator.evaluate, line 352: the discard rule raises
DiscardRaise ==
    /\ pc = "discard"
    /\ max_materializations_per_minute # None
    /\ rule_calls' = Append(rule_calls,
                            [rule |-> DiscardRuleName,
                             node |-> <<>>,
                             candidate_subset |->
                                DiscardContext(get_root_condition_context(context),
                                               condition_evaluation[1]).candidate_subset,
                             results |-> <<>>,
                             raised |-> TRUE])
    /\ pc' = "raised"
    /\ UNCHANGED <<condition, cap_argument, max_materializations_per_minute, context, stack,
                   condition_evaluation, to_discard, returned>>
    /\ UNCHANGED <<conversionVars, algebraVars, legacyVars, eventVars, negationVars>>

\* ------------------------------------------------------------- to_evaluation
\* AutoMaterializeRule.to_snapshot()
to_snapshot(rule) == [class_name |-> rule]

\* AutoMaterializeRuleEvaluation(rule_snapshot, evaluation_data) paired with a subset
RuleEvaluationPair(rule, result) ==
    [rule_evaluation |-> [rule_snapshot |-> to_snapshot(rule),
                          evaluation_data |-> result.evaluation_data],
     asset_partitions |-> result.asset_partitions]

\* ConditionEvaluation.all_results, lines 47-59: the node's own part
OwnResults(evaluation) ==
    IF evaluation.condition.kind = "rule"
    THEN [i \in 1..Len(evaluation.results) |->
            RuleEvaluationPair(evaluation.condition.rule, evaluation.results[i])]
    ELSE <<>>

RECURSIVE all_results_children_first(_)
all_results_children_first(evaluation) ==
    LET RECURSIVE Loop(_)
        Loop(n) ==
            IF n = 0 THEN OwnResults(evaluation)
            ELSE all_results_children_first(evaluation.child_evaluations[n]) \o Loop(n - 1)
    IN  Loop(Len(evaluation.child_evaluations))

\* ConditionEvaluation.all_results, lines 40-62
RECURSIVE all_results(_)
all_results(evaluation) ==
    LET RECURSIVE Loop(_)
        Loop(n) ==
            IF n = 0 THEN OwnResults(evaluation)
            ELSE Loop(n - 1) \o all_results(evaluation.child_evaluations[n])
    IN  Loop(Len(evaluation.child_evaluations))

is_legacyOfAnyLength(cond) ==
    /\ cond.kind = "and"
    /\ Len(cond.children) >= 2
    /\ cond.children[1].kind = "or"
    /\ cond.children[2].kind = "nor"

\* AutomationCondition.is_legacy, lines 215-225
is_legacy(cond) ==
    /\ cond.kind = "and"
    /\ Len(cond.children) = 2
    /\ cond.children[1].kind = "or"
    /\ cond.children[2].kind = "nor"

SkippedSubsetSizeOfSkipBranch(evaluation) ==
    IF is_legacy(evaluation.condition) /\ Len(evaluation.child_evaluations) = 2
    THEN size(evaluation.child_evaluations[2].true_subset)
    ELSE 0

\* ConditionEvaluation.to_evaluation, lines 84-92
SkippedSubsetSize(evaluation) ==
    IF is_legacy(evaluation.condition) /\ Len(evaluation.child_evaluations) = 2
    THEN size(evaluation.child_evaluations[1].true_subset)
            - size(evaluation.child_evaluations[2].true_subset)
    ELSE 0

\* AutoMaterializeAssetEvaluation.from_rule_evaluation_results(...), as called in lines 94-102
to_evaluation(evaluation, discarded, discard_results) ==
    [asset_key |-> AssetKeyValue,
     asset_partitions_by_rule_evaluation |-> all_results(evaluation) \o discard_results,
     num_requested |-> size(evaluation.true_subset \ discarded),
     num_skipped |-> SkippedSubsetSize(evaluation),
     num_discarded |-> size(discarded)]

\* the discard_results the caller passes: what the discard rule returned in this pass
DiscardResults ==
    LET last == rule_calls[Len(rule_calls)]
    IN  IF rule_calls # <<>> /\ last.rule = DiscardRuleName
        THEN [i \in 1..Len(last.results) |-> RuleEvaluationPair(DiscardRuleName, last.results[i])]
        ELSE <<>>

\* the caller converts the returned evaluation: ConditionEvaluation.to_evaluation
ToEvaluation ==
    /\ pc = "done"
    /\ pc' = "converted"
    /\ asset_evaluation' =
         Some(to_evaluation(returned[1].condition_evaluation, returned[1].to_discard, DiscardResults))
    /\ UNCHANGED <<condition, cap_argument, max_materializations_per_minute, context, stack,
                   condition_evaluation, to_discard, rule_calls, returned>>
    /\ UNCHANGED <<algebraVars, legacyVars, eventVars, negationVars>>

\* ------------------------------------------------- composing conditions
__and__PrependsWhenGrouping(self, other) ==
    IF self.kind = "and" THEN AndAutomationCondition(<<other>> \o self.children)
    ELSE AndAutomationCondition(<<self, other>>)

__and__MergesRight(self, other) ==
    IF self.kind = "and" THEN AndAutomationCondition(self.children \o <<other>>)
    ELSE IF other.kind = "and" THEN AndAutomationCondition(<<self>> \o other.children)
    ELSE AndAutomationCondition(<<self, other>>)

__and__Ungrouped(self, other) == AndAutomationCondition(<<self, other>>)

\* AutomationCondition.__and__, lines 194-198
__and__(self, other) ==
    IF self.kind = "and" THEN AndAutomationCondition(self.children \o <<other>>)
    ELSE AndAutomationCondition(<<self, other>>)

\* AutomationCondition.__or__, lines 200-204
__or__(self, other) ==
    IF self.kind = "or" THEN OrAutomationCondition(self.children \o <<other>>)
    ELSE OrAutomationCondition(<<self, other>>)

__invert__AlwaysWraps(self) == NorAutomationCondition(<<self>>)

\* AutomationCondition.__invert__, lines 206-213
__invert__(self) ==
    IF self.kind = "or" THEN NorAutomationCondition(self.children)
    ELSE IF self.kind = "nor" THEN OrAutomationCondition(self.children)
    ELSE NorAutomationCondition(<<self>>)

\* the conditions a, b, c are drawn from: rules, and nodes over one or two rules
OperandRules == {"r1", "r2"}

OperandLeaves == {RuleCondition(r) : r \in OperandRules}

OperandConditions ==
    OperandLeaves \cup
    {Composite(k, cs) : k \in CompositeKinds,
                        cs \in SeqsUpTo(OperandLeaves, 2) \ {<<>>}}

\* the compositions that are made, in this order: name, operator, operands
Program ==
    << <<"ab", "and", "a", "b">>,
       <<"ab_c", "and", "ab", "c">>,
       <<"bc", "and", "b", "c">>,
       <<"a_bc", "and", "a", "bc">>,
       <<"aob", "or", "a", "b">>,
       <<"aob_c", "or", "aob", "c">>,
       <<"boc", "or", "b", "c">>,
       <<"a_boc", "or", "a", "boc">>,
       <<"n_aob", "invert", "aob", "aob">>,
       <<"nn_aob", "invert", "n_aob", "n_aob">>,
       <<"n_a", "invert", "a", "a">> >>

IsNamed(name) == name \in {"a", "b", "c"} \cup {named[i].name : i \in 1..Len(named)}

\* the condition a name stands for
Value(name) ==
    IF name = "a" THEN operands[1]
    ELSE IF name = "b" THEN operands[2]
    ELSE IF name = "c" THEN operands[3]
    ELSE LET i == CHOOSE j \in 1..Len(named) : named[j].name = name
         IN  named[i].result

NextRow == Program[Len(named) + 1]

Compose(result) ==
    /\ named' = Append(named, [name |-> NextRow[1], op |-> NextRow[2],
                               left |-> Value(NextRow[3]), right |-> Value(NextRow[4]),
                               result |-> result])
    /\ UNCHANGED operands
    /\ UNCHANGED <<evaluatorVars, conversionVars, legacyVars, eventVars, negationVars>>

\* left & right
ComposeAnd ==
    /\ operands # None
    /\ Len(named) < Len(Program)
    /\ NextRow[2] = "and"
    /\ Compose(__and__(Value(NextRow[3]), Value(NextRow[4])))

\* left | right
ComposeOr ==
    /\ operands # None
    /\ Len(named) < Len(Program)
    /\ NextRow[2] = "or"
    /\ Compose(__or__(Value(NextRow[3]), Value(NextRow[4])))

\* ~left
ComposeInvert ==
    /\ operands # None
    /\ Len(named) < Len(Program)
    /\ NextRow[2] = "invert"
    /\ Compose(__invert__(Value(NextRow[3])))

\* ------------------------------------------------------------ from_evaluation
\* AutoMaterializeRule.decision_type of the rules used here
decision_type(rule) == IF rule = "r1" THEN "MATERIALIZE" ELSE "SKIP"

\* AutoMaterializeAssetEvaluation.get_evaluated_subset(asset_graph)
get_evaluated_subset(evaluation) == evaluation.evaluated_subset

\* AutoMaterializeAssetEvaluation.get_rule_evaluation_results(rule_snapshot, asset_graph)
get_rule_evaluation_results(evaluation, rule_snapshot) ==
    LET pairs == evaluation.asset_partitions_by_rule_evaluation
        Matches(pair) == pair.rule_evaluation.rule_snapshot = rule_snapshot
        matching == SelectSeq(pairs, Matches)
    IN  [i \in 1..Len(matching) |->
            [evaluation_data |-> matching[i].rule_evaluation.evaluation_data,
             asset_partitions |-> matching[i].asset_partitions]]

\* `evaluation.rule_snapshots or set()`, lines 144 and 150
RuleSnapshotsOrEmpty(evaluation) ==
    IF evaluation.rule_snapshots = None THEN {} ELSE evaluation.rule_snapshots[1]

\* ConditionEvaluation.from_evaluation_and_rule, lines 104-121
from_evaluation_and_rule(evaluation, rule) ==
    [ConditionEvaluation(
        RuleCondition(rule),
        empty_subset,
        IF decision_type(rule) = "MATERIALIZE" THEN empty_subset
        ELSE get_evaluated_subset(evaluation),
        get_rule_evaluation_results(evaluation, to_snapshot(rule)),
        <<>>) EXCEPT !.discard_subset = Some(empty_subset)]

BranchRulesUnfiltered(branch, evaluation) ==
    LET Kept(child) == child.kind = "rule"
        kept == SelectSeq(branch.children, Kept)
    IN  [i \in 1..Len(kept) |-> kept[i].rule]

\* lines 140-151: the rules of a branch's RuleCondition children whose
\* snapshot is among the record's rule_snapshots
BranchRules(branch, evaluation) ==
    LET Kept(child) == /\ child.kind = "rule"
                       /\ to_snapshot(child.rule) \in RuleSnapshotsOrEmpty(evaluation)
        kept == SelectSeq(branch.children, Kept)
    IN  [i \in 1..Len(kept) |-> kept[i].rule]

\* lines 153-170: the evaluation rebuilt for one branch
BranchEvaluation(branch, evaluation) ==
    LET rules == BranchRules(branch, evaluation)
    IN  ConditionEvaluation(branch, empty_subset, empty_subset, <<>>,
                            [i \in 1..Len(rules) |-> from_evaluation_and_rule(evaluation, rules[i])])

from_evaluationSkipBranchFirst(cond, evaluation) ==
    IF ~is_legacy(cond) THEN None
    ELSE Some(ConditionEvaluation(
                cond, get_evaluated_subset(evaluation), empty_subset, <<>>,
                <<BranchEvaluation(cond.children[2], evaluation),
                  BranchEvaluation(cond.children[1], evaluation)>>))

\* ConditionEvaluation.from_evaluation, lines 123-177
from_evaluation(cond, evaluation) ==
    IF ~is_legacy(cond) THEN None
    ELSE Some(ConditionEvaluation(
                cond, get_evaluated_subset(evaluation), empty_subset, <<>>,
                <<BranchEvaluation(cond.children[1], evaluation),
                  BranchEvaluation(cond.children[2], evaluation)>>))

\* the conditions from_evaluation is tried on
LegacyLevel1 ==
    OperandLeaves \cup
    {Composite(k, cs) : k \in CompositeKinds, cs \in SeqsUpTo(OperandLeaves, 2)}

LegacySmall == OperandLeaves \cup {Composite(k, <<RuleCondition("r1")>>) : k \in CompositeKinds}

\* AND(OR(..), NOR(..)) whose branches hold rules and nodes
LegacyMixed ==
    {AndAutomationCondition(<<OrAutomationCondition(cs), NorAutomationCondition(ds)>>) :
        cs \in SeqsUpTo(LegacySmall, 2), ds \in SeqsUpTo(LegacySmall, 2)}

LegacyConditions ==
    LegacyLevel1
    \cup LegacyMixed
    \cup {Composite(k, cs) : k \in CompositeKinds, cs \in SeqsUpTo(LegacyLevel1, 2)}
    \cup {Composite(k, cs) : k \in CompositeKinds, cs \in [1..3 -> LegacySmall]}

\* the AutoMaterializeAssetEvaluation records from_evaluation is tried on
LegacyRulePairs ==
    {RuleEvaluationPair(r, [evaluation_data |-> "d",
                            asset_partitions |-> {AssetKeyPartitionKey(1)}]) : r \in OperandRules}

LegacyEvaluations ==
    [asset_key : {AssetKeyValue},
     rule_snapshots : {None} \cup {Some(S) : S \in SUBSET {to_snapshot(r) : r \in OperandRules}},
     evaluated_subset : {{}, {1, 2}},
     asset_partitions_by_rule_evaluation : SeqsUpTo(LegacyRulePairs, 1)]

\* the caller rebuilds the previous evaluation: ConditionEvaluation.from_evaluation
FromEvaluation ==
    /\ legacy_condition # None
    /\ reconstructed = None
    /\ reconstructed' = Some(from_evaluation(legacy_condition[1], legacy_evaluation[1]))
    /\ UNCHANGED <<legacy_condition, legacy_evaluation>>
    /\ UNCHANGED <<evaluatorVars, conversionVars, algebraVars, eventVars, negationVars>>

\* --------------------------------------------------- OpExecutionContext events
\* the most log_event calls that append, and the most consume_events calls
MaxLogged == 3

MaxGenerators == 2

\* the events user code may hand to log_event; an Output is not a UserEvent
UserEventKinds == {"AssetMaterialization", "AssetObservation", "ExpectationResult"}

LoggableKinds == UserEventKinds \cup {"Output"}

\* DagsterEvent.asset_materialization / asset_observation / step_expectation_result
DagsterEvent(event) ==
    [event_type_value |->
        IF event = "AssetMaterialization" THEN "ASSET_MATERIALIZATION"
        ELSE IF event = "AssetObservation" THEN "ASSET_OBSERVATION"
        ELSE "STEP_EXPECTATION_RESULT",
     event_specific_data |-> event]

\* OpExecutionContext.has_events, lines 392-393
has_events == op_events # <<>>

\* OpExecutionContext.log_event, lines 404-434
LogEvent ==
    \E event \in LoggableKinds :
        /\ Len(logged) < MaxLogged
        /\ IF event \in UserEventKinds
           THEN /\ op_events' = Append(op_events, DagsterEvent(event))
                /\ logged' = Append(logged, DagsterEvent(event))
                /\ last_call' = "log_event"
           ELSE /\ UNCHANGED <<op_events, logged>>
                /\ last_call' = "check.failed"
        /\ UNCHANGED <<generators, batches, asset_events, reported>>
        /\ UNCHANGED <<evaluatorVars, conversionVars, algebraVars, legacyVars, negationVars>>

\* OpExecutionContext.consume_events, line 395: the call makes a generator,
\* whose body has not started
ConsumeEvents ==
    /\ Len(generators) < MaxGenerators
    /\ generators' = Append(generators,
                            [self |-> "op", started |-> FALSE, exhausted |-> FALSE,
                             raised |-> FALSE, events |-> <<>>, since |-> 0, upto |-> 0])
    /\ batches' = Append(batches, <<>>)
    /\ last_call' = "consume_events"
    /\ UNCHANGED <<op_events, logged, asset_events, reported>>
    /\ UNCHANGED <<evaluatorVars, conversionVars, algebraVars, legacyVars, negationVars>>

\* how many logged events the generators started so far have taken
Taken == 
    LET RECURSIVE Most(_)
        Most(n) == IF n = 0 THEN 0
                   ELSE IF generators[n].started /\ generators[n].upto > Most(n - 1)
                        THEN generators[n].upto ELSE Most(n - 1)
    IN  Most(Len(generators))

EventsAfterSwapKept(events) == events

\* line 401: self._events = []
EventsAfterSwap(events) == <<>>

\* lines 400-402, run by next() on generator g: the first step takes the queue,
\* every step yields the next taken event or stops
GeneratorNext ==
    \E g \in 1..Len(generators) :
        LET gen == generators[g]
            events == IF gen.started THEN gen.events ELSE op_events
        IN  /\ gen.self = "op"
            /\ ~gen.exhausted
            /\ op_events' = IF gen.started THEN op_events ELSE EventsAfterSwap(op_events)
            /\ generators' =
                 [generators EXCEPT ![g] =
                    [self |-> "op",
                     started |-> TRUE,
                     exhausted |-> events = <<>>,
                     raised |-> FALSE,
                     events |-> IF events = <<>> THEN <<>> ELSE Tail(events),
                     since |-> IF gen.started THEN gen.since ELSE Taken,
                     upto |-> IF gen.started THEN gen.upto ELSE Len(logged)]]
            /\ batches' = IF events = <<>> THEN batches
                          ELSE [batches EXCEPT ![g] = Append(@, Head(events))]
            /\ last_call' = IF gen.started THEN "next" ELSE "first next"
            /\ UNCHANGED <<logged, asset_events, reported>>
            /\ UNCHANGED <<evaluatorVars, conversionVars, algebraVars, legacyVars, negationVars>>

\* ----------------------------------------------------- AssetExecutionContext
\* AssetExecutionContext.__init__, lines 1344-1350, sets _op_execution_context
\* and _step_execution_context and does not call OpExecutionContext.__init__:
\* the asset context itself gets no _events attribute
AssetEventsAfterInit == None

\* AssetExecutionContext.log_event, lines 1443-1444: the wrapped context's log_event
AssetLogEvent ==
    \E event \in LoggableKinds :
        /\ Len(logged) < MaxLogged
        /\ IF event \in UserEventKinds
           THEN /\ op_events' = Append(op_events, DagsterEvent(event))
                /\ logged' = Append(logged, DagsterEvent(event))
                /\ last_call' = "asset.log_event"
           ELSE /\ UNCHANGED <<op_events, logged>>
                /\ last_call' = "check.failed"
        /\ UNCHANGED <<generators, batches, asset_events, reported>>
        /\ UNCHANGED <<evaluatorVars, conversionVars, algebraVars, legacyVars, negationVars>>

\* has_events on the asset context: the inherited method of lines 392-393
\* reads self._events of the asset context
AssetHasEvents ==
    /\ reported' = IF asset_events = None THEN "AttributeError"
                   ELSE IF asset_events[1] # <<>> THEN "True" ELSE "False"
    /\ last_call' = "asset.has_events"
    /\ UNCHANGED <<op_events, logged, generators, batches, asset_events>>
    /\ UNCHANGED <<evaluatorVars, conversionVars, algebraVars, legacyVars, negationVars>>

\* AssetExecutionContext.consume_events, lines 1534-1536: super().consume_events()
\* makes a generator of lines 395-402 with self the asset context
AssetConsumeEvents ==
    /\ Len(generators) < MaxGenerators
    /\ generators' = Append(generators,
                            [self |-> "asset", started |-> FALSE, exhausted |-> FALSE,
                             raised |-> FALSE, events |-> <<>>, since |-> 0, upto |-> 0])
    /\ batches' = Append(batches, <<>>)
    /\ last_call' = "asset.consume_events"
    /\ UNCHANGED <<op_events, logged, asset_events, reported>>
    /\ UNCHANGED <<evaluatorVars, conversionVars, algebraVars, legacyVars, negationVars>>

\* next() on a generator of the asset context: line 400 reads self._events of
\* the asset context, which raises when the attribute does not exist
AssetGeneratorNext ==
    \E g \in 1..Len(generators) :
        LET gen == generators[g]
            missing == ~gen.started /\ asset_events = None
            events == IF gen.started THEN gen.events
                      ELSE IF missing THEN <<>> ELSE asset_events[1]
        IN  /\ gen.self = "asset"
            /\ ~gen.exhausted
            /\ asset_events' = IF gen.started \/ missing THEN asset_events
                               ELSE Some(EventsAfterSwap(asset_events[1]))
            /\ generators' =
                 [generators EXCEPT ![g] =
                    [self |-> "asset",
                     started |-> TRUE,
                     exhausted |-> events = <<>>,
                     raised |-> missing,
                     events |-> IF events = <<>> THEN <<>> ELSE Tail(events),
                     since |-> gen.since,
                     upto |-> gen.upto]]
            /\ batches' = IF events = <<>> THEN batches
                          ELSE [batches EXCEPT ![g] = Append(@, Head(events))]
            /\ last_call' = IF missing THEN "AttributeError" ELSE "asset next"
            /\ UNCHANGED <<op_events, logged, reported>>
            /\ UNCHANGED <<evaluatorVars, conversionVars, algebraVars, legacyVars, negationVars>>

\* ------------------------------------------------------- evaluate, as a whole
\* what a rule returns for each candidate scope, when it depends on nothing else
RuleFunctionResults == SeqsUpTo(RuleResult, 1)

RuleFunctions == [RuleNames -> [AssetSubsets -> RuleFunctionResults]]

\* AutomationCondition.evaluate(context), lines 233-316, run to completion
RECURSIVE evaluate(_, _, _)
evaluate(cond, ctx, rules) ==
    IF cond.kind = "rule"
    THEN RuleConditionEvaluate(cond, ctx, rules[cond.rule][ctx.candidate_subset])
    ELSE LET RECURSIVE Loop(_)
             Loop(n) ==
                IF n = 0 THEN Frame(cond, ctx)
                ELSE LET frame == Loop(n - 1)
                         child == cond.children[n]
                         child_context == ChildContext(cond.kind, frame.context, child,
                                                       frame.true_subset)
                         result == evaluate(child, child_context, rules)
                     IN  [frame EXCEPT
                            !.context = child_context,
                            !.child_contexts = Append(@, child_context),
                            !.child_evaluations = Append(@, result),
                            !.true_subset = Accumulate(cond.kind, @, result)]
         IN  CompositeEvaluation(Loop(Len(cond.children)))

\* ~ applied to the condition, then to the result
Invert ==
    /\ negation_of # None
    /\ Len(negated) < 2
    /\ negated' = Append(negated,
                         __invert__(IF negated = <<>> THEN negation_of[1].condition
                                    ELSE negated[Len(negated)]))
    /\ UNCHANGED <<negation_of, both_evaluations>>
    /\ UNCHANGED <<evaluatorVars, conversionVars, algebraVars, legacyVars, eventVars>>

\* the condition and its double negation are evaluated in the same context
EvaluateBoth ==
    /\ Len(negated) = 2
    /\ both_evaluations = None
    /\ both_evaluations' =
         Some([direct |-> evaluate(negation_of[1].condition, negation_of[1].context,
                                   negation_of[1].rules),
               twice |-> evaluate(negated[2], negation_of[1].context, negation_of[1].rules)])
    /\ UNCHANGED <<negation_of, negated>>
    /\ UNCHANGED <<evaluatorVars, conversionVars, algebraVars, legacyVars, eventVars>>

\* ------------------------------------------------------------ specification
\* the cursor of the previous pass, opaque to the evaluator
PreviousCursor == "cursor0"

Caps == {None} \cup {Some(n) : n \in 0..MaxCap}

\* the constructor is called without the argument, or with one
CapArguments == {None} \cup {Some(cap) : cap \in Caps}

\* line 325: max_materializations_per_minute: Optional[int] = 1
DefaultCap == 1

\* the field's value after construction
CapField(argument) == IF argument = None THEN Some(DefaultCap) ELSE argument[1]

InitEvaluator ==
    /\ condition \in Conditions
    /\ cap_argument \in CapArguments
    /\ max_materializations_per_minute = CapField(cap_argument)
    /\ context \in [candidate_subset : AssetSubsets, cursor : {PreviousCursor}]
    /\ pc = "start"
    /\ stack = <<>>
    /\ condition_evaluation = None
    /\ to_discard = empty_subset
    /\ rule_calls = <<>>
    /\ returned = None
    /\ asset_evaluation = None

\* no evaluator is constructed
NoEvaluator ==
    /\ condition = RuleCondition("r1")
    /\ cap_argument = Some(None)
    /\ max_materializations_per_minute = None
    /\ context = [candidate_subset |-> empty_subset, cursor |-> PreviousCursor]
    /\ pc = "idle"
    /\ stack = <<>>
    /\ condition_evaluation = None
    /\ to_discard = empty_subset
    /\ rule_calls = <<>>
    /\ returned = None
    /\ asset_evaluation = None

InitAlgebra ==
    /\ operands \in [1..3 -> OperandConditions]
    /\ named = <<>>

NoAlgebra ==
    /\ operands = <<>>
    /\ named = <<>>

InitLegacy ==
    /\ legacy_condition \in {Some(c) : c \in LegacyConditions}
    /\ legacy_evaluation \in {Some(e) : e \in LegacyEvaluations}
    /\ reconstructed = None

NoLegacy ==
    /\ legacy_condition = None
    /\ legacy_evaluation = None
    /\ reconstructed = None

InitNegation ==
    /\ negation_of \in {Some(input) : input \in [condition : Conditions,
                                                   context : [candidate_subset : AssetSubsets],
                                                   rules : RuleFunctions]}
    /\ negated = <<>>
    /\ both_evaluations = None

NoNegation ==
    /\ negation_of = None
    /\ negated = <<>>
    /\ both_evaluations = None

\* OpExecutionContext.__init__, line 149: self._events = []
InitEvents ==
    /\ op_events = <<>>
    /\ logged = <<>>
    /\ generators = <<>>
    /\ batches = <<>>
    /\ last_call = "__init__"
    /\ asset_events = AssetEventsAfterInit
    /\ reported = "none"

\* one pass of AssetAutomationEvaluator.evaluate and its conversion by to_evaluation
Init == InitEvaluator /\ NoAlgebra /\ NoLegacy /\ InitEvents /\ NoNegation

Next ==
    \/ EvaluatorStart
    \/ ChildCall
    \/ RuleEvaluate
    \/ CompositeReturn
    \/ EvaluatorFinish
    \/ ToEvaluation

Spec == Init /\ [][Next]_vars

\* the same pass when evaluate_for_asset may raise
NextRaise ==
    \/ EvaluatorStart
    \/ ChildCall
    \/ RuleEvaluate
    \/ CompositeReturn
    \/ EvaluatorFinish
    \/ RuleRaise
    \/ DiscardRaise

SpecRaise == Init /\ [][NextRaise]_vars

\* conditions composed with the operators & | ~
InitOperators == NoEvaluator /\ InitAlgebra /\ NoLegacy /\ InitEvents /\ NoNegation

NextAlgebra ==
    \/ ComposeAnd
    \/ ComposeOr
    \/ ComposeInvert

SpecAlgebra == InitOperators /\ [][NextAlgebra]_vars

\* ConditionEvaluation.from_evaluation on a stored record
InitFromEvaluation == NoEvaluator /\ NoAlgebra /\ InitLegacy /\ InitEvents /\ NoNegation

NextLegacy == FromEvaluation

SpecLegacy == InitFromEvaluation /\ [][NextLegacy]_vars

\* the event queue of an OpExecutionContext
InitContext == NoEvaluator /\ NoAlgebra /\ NoLegacy /\ InitEvents /\ NoNegation

NextEvents ==
    \/ LogEvent
    \/ ConsumeEvents
    \/ GeneratorNext

SpecEvents == InitContext /\ [][NextEvents]_vars

\* an AssetExecutionContext that wraps the OpExecutionContext
NextAsset ==
    \/ AssetLogEvent
    \/ AssetHasEvents
    \/ AssetConsumeEvents
    \/ AssetGeneratorNext
    \/ ConsumeEvents
    \/ GeneratorNext

SpecAsset == InitContext /\ [][NextAsset]_vars

\* a condition and its double negation, evaluated with rules that are
\* functions of the candidate scope
InitDoubleNegation == NoEvaluator /\ NoAlgebra /\ NoLegacy /\ InitEvents /\ InitNegation

NextNegation ==
    \/ Invert
    \/ EvaluateBoth

SpecNegation == InitDoubleNegation /\ [][NextNegation]_vars

\* ================================================================== claims
\* every ConditionEvaluation returned so far to a caller that is still
\* active, or to the evaluator, with the candidate scope its node was given
ReturnedEvaluations ==
    UNION {{[evaluation |-> stack[i].child_evaluations[k],
             scope |-> stack[i].child_contexts[k].candidate_subset] :
                k \in 1..Len(stack[i].child_evaluations)} : i \in 1..Len(stack)}
    \cup (IF condition_evaluation = None THEN {}
          ELSE {[evaluation |-> condition_evaluation[1],
                 scope |-> get_root_condition_context(context).candidate_subset]})

ReturnedOfKind(kind) == {r \in ReturnedEvaluations : r.evaluation.condition.kind = kind}

ChildTrueSubsets(evaluation) ==
    {evaluation.child_evaluations[i].true_subset : i \in 1..Len(evaluation.child_evaluations)}

FramesOfKind(kind) == {i \in 1..Len(stack) : stack[i].condition.kind = kind}

\* the true_subsets of the first k-1 children of frame i
EarlierTrueSubsets(i, k) == {stack[i].child_evaluations[j].true_subset : j \in 1..(k - 1)}

\* every active call was entered with the context its caller passed last
CalleeGotCallerContext ==
    \A i \in 1..(Len(stack) - 1) :
        /\ stack[i].child_contexts # <<>>
        /\ stack[i + 1].scope = stack[i].child_contexts[Len(stack[i].child_contexts)]

\* C1: an AND node's true_subset is its candidate scope S intersected with the
\* true_subset of every child evaluation it returns; for two children with
\* X, Y inside S that is X intersect Y
C1_AndTrueSubset ==
    \A r \in ReturnedOfKind("and") :
        LET e == r.evaluation
        IN  /\ e.true_subset = {p \in r.scope : \A X \in ChildTrueSubsets(e) : p \in X}
            /\ (Len(e.child_evaluations) = 2
                /\ e.child_evaluations[1].true_subset \subseteq r.scope
                /\ e.child_evaluations[2].true_subset \subseteq r.scope)
               => e.true_subset = e.child_evaluations[1].true_subset
                                    \cap e.child_evaluations[2].true_subset

C1_Witness ==
    \E r \in ReturnedOfKind("and") :
        /\ Len(r.evaluation.child_evaluations) = 2
        /\ r.evaluation.child_evaluations[1].true_subset \subseteq r.scope
        /\ r.evaluation.child_evaluations[2].true_subset \subseteq r.scope
        /\ r.evaluation.child_evaluations[1].true_subset # r.evaluation.child_evaluations[2].true_subset
        /\ r.evaluation.true_subset # {}

\* C2: an AND node evaluates its first child with scope S and its k-th child
\* with S intersected with the true_subsets of children 1..k-1
C2_AndNarrowsScope ==
    /\ CalleeGotCallerContext
    /\ \A i \in FramesOfKind("and") :
        \A k \in 1..Len(stack[i].child_contexts) :
            stack[i].child_contexts[k].candidate_subset =
                {p \in stack[i].scope.candidate_subset : \A X \in EarlierTrueSubsets(i, k) : p \in X}

C2_Witness ==
    \E i \in FramesOfKind("and") :
        /\ Len(stack[i].child_contexts) = 2
        /\ stack[i].child_evaluations[1].true_subset \subseteq stack[i].scope.candidate_subset
        /\ stack[i].child_evaluations[1].true_subset # stack[i].scope.candidate_subset
        /\ stack[i].child_contexts[2].candidate_subset = stack[i].child_evaluations[1].true_subset

\* C3: an OR node's true_subset is the union of the true_subsets of all its
\* child evaluations, empty when it has no children
C3_OrTrueSubset ==
    \A r \in ReturnedOfKind("or") :
        /\ r.evaluation.true_subset = UNION ChildTrueSubsets(r.evaluation)
        /\ r.evaluation.child_evaluations = <<>> => r.evaluation.true_subset = {}

C3_Witness ==
    \E r \in ReturnedOfKind("or") :
        /\ Len(r.evaluation.child_evaluations) = 2
        /\ r.evaluation.true_subset # r.evaluation.child_evaluations[1].true_subset
        /\ r.evaluation.true_subset # r.evaluation.child_evaluations[2].true_subset

\* C4: an OR node evaluates every child with the very context it received
C4_OrKeepsScope ==
    /\ CalleeGotCallerContext
    /\ \A i \in FramesOfKind("or") :
        \A k \in 1..Len(stack[i].child_contexts) : stack[i].child_contexts[k] = stack[i].scope

C4_Witness ==
    \E i \in FramesOfKind("or") :
        /\ Len(stack[i].child_contexts) = 2
        /\ stack[i].child_evaluations[1].true_subset # stack[i].scope.candidate_subset
        /\ stack[i].child_contexts[2] = stack[i].scope

\* C5: a NOR node's true_subset is its candidate scope S minus the union of
\* the true_subsets of all its child evaluations
C5_NorTrueSubset ==
    \A r \in ReturnedOfKind("nor") :
        r.evaluation.true_subset = r.scope \ UNION ChildTrueSubsets(r.evaluation)

C5_Witness ==
    \E r \in ReturnedOfKind("nor") :
        /\ Len(r.evaluation.child_evaluations) = 2
        /\ r.evaluation.child_evaluations[1].true_subset # {}
        /\ r.evaluation.child_evaluations[1].true_subset # r.evaluation.child_evaluations[2].true_subset
        /\ r.evaluation.true_subset # {}

\* C6: a NOR node evaluates its first child with scope S and its k-th child
\* with S minus the true_subsets of children 1..k-1
C6_NorNarrowsScope ==
    /\ CalleeGotCallerContext
    /\ \A i \in FramesOfKind("nor") :
        \A k \in 1..Len(stack[i].child_contexts) :
            stack[i].child_contexts[k].candidate_subset =
                stack[i].scope.candidate_subset \ UNION EarlierTrueSubsets(i, k)

C6_Witness ==
    \E i \in FramesOfKind("nor") :
        /\ Len(stack[i].child_contexts) = 2
        /\ stack[i].child_evaluations[1].true_subset # {}
        /\ stack[i].child_contexts[2].candidate_subset # stack[i].scope.candidate_subset
        /\ stack[i].child_contexts[2].candidate_subset # {}

\* the evaluations of the rule nodes in a sequence of evaluations, left to right
RECURSIVE LeafEvaluations(_)
LeafEvaluations(evaluations) ==
    IF evaluations = <<>> THEN <<>>
    ELSE LET first == Head(evaluations)
         IN  (IF first.condition.kind = "rule" THEN <<first>>
              ELSE LeafEvaluations(first.child_evaluations))
             \o LeafEvaluations(Tail(evaluations))

\* the rule evaluations held by the first n active calls, in the order they were returned
RECURSIVE LeafEvaluationsOfFrames(_)
LeafEvaluationsOfFrames(n) ==
    IF n = 0 THEN <<>>
    ELSE LeafEvaluationsOfFrames(n - 1) \o LeafEvaluations(stack[n].child_evaluations)

AllLeafEvaluations ==
    IF condition_evaluation # None THEN LeafEvaluations(condition_evaluation)
    ELSE LeafEvaluationsOfFrames(Len(stack))

IsTreeCall(call) == call.rule # DiscardRuleName

TreeRuleCalls == SelectSeq(rule_calls, IsTreeCall)

\* C7: a RuleCondition returns a leaf evaluation: true_subset is the union of
\* all the asset-partition sets its rule returned, results is the rule's
\* sequence in the same order, there are no child evaluations, and
\* candidate_subset is the candidate scope of the context it was given
C7_RuleLeafEvaluation ==
    /\ Len(AllLeafEvaluations) = Len(TreeRuleCalls)
    /\ \A i \in 1..Len(AllLeafEvaluations) :
        LET e == AllLeafEvaluations[i]
            call == TreeRuleCalls[i]
        IN  /\ e.condition = RuleCondition(call.rule)
            /\ e.results = call.results
            /\ e.true_subset =
                 UNION {{ap.partition_key : ap \in call.results[j].asset_partitions} :
                            j \in 1..Len(call.results)}
            /\ e.child_evaluations = <<>>
            /\ e.candidate_subset = call.candidate_subset
    /\ \A r \in ReturnedOfKind("rule") : r.evaluation.candidate_subset = r.scope

C7_Witness ==
    \E r \in ReturnedOfKind("rule") :
        /\ Len(r.evaluation.results) = 2
        /\ r.evaluation.results[1].asset_partitions = {AssetKeyPartitionKey(2)}
        /\ r.evaluation.results[2].asset_partitions = {AssetKeyPartitionKey(1)}
        /\ r.evaluation.true_subset = {1, 2}
        /\ r.scope = {1}

Finished == pc = "done" /\ returned # None

\* the keys of `subset` after its first n in priority order
BeyondFirst(subset, n) == {p \in subset : Cardinality({q \in subset : q <= p}) > n}

\* C8: with a cap configured, the returned discard subset is a subset of the
\* root condition evaluation's true_subset
C8_DiscardWithinTrueSubset ==
    (Finished /\ max_materializations_per_minute # None) =>
        /\ returned[1].to_discard \subseteq condition_evaluation[1].true_subset
        /\ returned[1].to_discard \subseteq returned[1].condition_evaluation.true_subset

C8_Witness ==
    /\ Finished
    /\ max_materializations_per_minute # None
    /\ returned[1].to_discard # {}
    /\ returned[1].to_discard # condition_evaluation[1].true_subset
    /\ condition_evaluation[1].true_subset # context.candidate_subset

\* C9: with a cap N configured, at most N partitions of the root true_subset
\* are kept, the discarded ones are determined by the true_subset and N (the
\* ones after the first N in priority order), and cap 1 with true_subset
\* {P1, P2} gives one requested and one discarded partition
C9_CapKeepsAtMostN ==
    (Finished /\ max_materializations_per_minute # None) =>
        LET N == max_materializations_per_minute[1]
            true_subset == condition_evaluation[1].true_subset
            kept == true_subset \ returned[1].to_discard
        IN  /\ size(kept) <= N
            /\ returned[1].to_discard = BeyondFirst(true_subset, N)
            /\ (N = 1 /\ true_subset = {1, 2}) =>
                    (size(kept) = 1 /\ size(returned[1].to_discard) = 1)

C9_Witness ==
    /\ Finished
    /\ max_materializations_per_minute = Some(1)
    /\ condition_evaluation[1].true_subset = {1, 2}
    /\ returned[1].to_discard = {2}

\* C10: the returned triple holds the root evaluation with its true_subset
\* unchanged and discard_subset set to to_discard, a cursor built from
\* to_materialize = the root true_subset and to_discard, and to_discard itself
C10_ReturnedTriple ==
    Finished =>
        LET r == returned[1]
            root == condition_evaluation[1]
        IN  /\ r.condition_evaluation.true_subset = root.true_subset
            /\ r.condition_evaluation.discard_subset = Some(to_discard)
            /\ r.condition_evaluation = [root EXCEPT !.discard_subset = Some(to_discard)]
            /\ r.cursor = get_new_asset_cursor(context, root.true_subset, to_discard)
            /\ r.cursor.to_materialize = root.true_subset
            /\ r.cursor.to_discard = to_discard
            /\ r.to_discard = to_discard

C10_Witness ==
    /\ Finished
    /\ to_discard # {}
    /\ returned[1].condition_evaluation.true_subset = {1, 2}
    /\ returned[1].to_discard = to_discard

\* C11: if a rule raises during a pass, the error leaves
\* AssetAutomationEvaluator.evaluate: nothing is returned (no condition
\* evaluation, cursor or discard subset) and nothing is converted, no rule is
\* evaluated after the one that raised (no later sibling, no discard rule),
\* and no evaluate() call of the tree is left active
C11_RaisePropagates ==
    \A i \in 1..Len(rule_calls) :
        rule_calls[i].raised =>
            /\ pc = "raised"
            /\ returned = None
            /\ asset_evaluation = None
            /\ i = Len(rule_calls)
            /\ stack = <<>>

C11_Witness ==
    /\ pc = "raised"
    /\ condition.kind = "and"
    /\ Len(condition.children) = 2
    /\ Len(rule_calls) = 1
    /\ rule_calls[1].raised
    /\ max_materializations_per_minute # None

\* C17: all_results flattens the evaluation tree depth-first in pre-order:
\* the converted record lists, first, the results of the rule evaluations of
\* the tree from left to right, each rule's results in the order the rule
\* returned them
RECURSIVE ResultsInOrder(_)
ResultsInOrder(leaves) ==
    IF leaves = <<>> THEN <<>>
    ELSE LET leaf == Head(leaves)
         IN  [i \in 1..Len(leaf.results) |->
                [rule_evaluation |-> [rule_snapshot |-> [class_name |-> leaf.condition.rule],
                                      evaluation_data |-> leaf.results[i].evaluation_data],
                 asset_partitions |-> leaf.results[i].asset_partitions]]
             \o ResultsInOrder(Tail(leaves))

C17_AllResultsPreOrder ==
    asset_evaluation # None =>
        LET flat == asset_evaluation[1].asset_partitions_by_rule_evaluation
            expected == ResultsInOrder(AllLeafEvaluations)
        IN  /\ Len(flat) >= Len(expected)
            /\ SubSeq(flat, 1, Len(expected)) = expected

C17_Witness ==
    /\ asset_evaluation # None
    /\ \E i \in 1..Len(condition.children) : condition.children[i].kind \in CompositeKinds
    /\ Len(AllLeafEvaluations) = 2
    /\ Len(AllLeafEvaluations[1].results) = 2
    /\ AllLeafEvaluations[1].results[1].asset_partitions = {AssetKeyPartitionKey(2)}
    /\ AllLeafEvaluations[1].results[2].asset_partitions = {AssetKeyPartitionKey(1)}
    /\ Len(AllLeafEvaluations[2].results) = 1
    /\ AllLeafEvaluations[2].results[1].asset_partitions = AssetPartitions
    /\ Len(asset_evaluation[1].asset_partitions_by_rule_evaluation) = 3

\* C19: every ConditionEvaluation returned by an AND, OR, NOR or rule node has
\* candidate_subset equal to the candidate scope its caller passed to the node
C19_CandidateSubsetIsScope ==
    \A r \in ReturnedEvaluations : r.evaluation.candidate_subset = r.scope

\* C20: no early exit: every AND, OR and NOR evaluation holds exactly one
\* child evaluation per child condition, in declaration order, also when the
\* running true_subset was empty before the last child
C20_NoEarlyExit ==
    \A r \in ReturnedEvaluations :
        r.evaluation.condition.kind \in CompositeKinds =>
            /\ Len(r.evaluation.child_evaluations) = Len(r.evaluation.condition.children)
            /\ \A i \in 1..Len(r.evaluation.child_evaluations) :
                r.evaluation.child_evaluations[i].condition = r.evaluation.condition.children[i]

C20_Witness ==
    \E r \in ReturnedOfKind("and") :
        /\ r.scope # empty_subset
        /\ Len(r.evaluation.condition.children) = 2
        /\ Len(r.evaluation.child_evaluations) = 2
        /\ r.evaluation.child_evaluations[1].true_subset = empty_subset
        /\ r.evaluation.condition.children[1] # r.evaluation.condition.children[2]

\* the children a | b has when | merges a left operand that is an OR node
MergedOr(left, right) ==
    IF left.kind = "or" THEN left.children \o <<right>> ELSE <<left, right>>

\* C12, as stated: for all conditions c1, c2: ~(c1 | c2) is a NOR node over
\* [c1, c2] and ~(~(c1 | c2)) is an OR node over [c1, c2]; negating a
\* condition that is neither OR nor NOR gives a NOR node with that single child
C12_InvertOr ==
    /\ IsNamed("n_aob") =>
        Value("n_aob") = NorAutomationCondition(<<Value("a"), Value("b")>>)
    /\ IsNamed("nn_aob") =>
        Value("nn_aob") = OrAutomationCondition(<<Value("a"), Value("b")>>)
    /\ (IsNamed("n_a") /\ Value("a").kind \notin {"or", "nor"}) =>
        Value("n_a") = NorAutomationCondition(<<Value("a")>>)

\* C12, amended: for all conditions c1, c2 where c1 is not itself an OR node,
\* ~(c1 | c2) is a NOR node over [c1, c2] and ~(~(c1 | c2)) is an OR node over
\* [c1, c2]; where c1 is an OR node both are over c1's children followed by
\* c2; negating a condition that is neither OR nor NOR gives a NOR node with
\* that single child
C12_InvertOrUnmerged ==
    /\ IsNamed("n_aob") =>
        Value("n_aob") = NorAutomationCondition(MergedOr(Value("a"), Value("b")))
    /\ IsNamed("nn_aob") =>
        Value("nn_aob") = OrAutomationCondition(MergedOr(Value("a"), Value("b")))
    /\ (IsNamed("n_a") /\ Value("a").kind \notin {"or", "nor"}) =>
        Value("n_a") = NorAutomationCondition(<<Value("a")>>)

C12_Witness ==
    /\ IsNamed("n_a")
    /\ Value("a").kind = "and"
    /\ Value("b").kind = "or"
    /\ Value("n_aob") = NorAutomationCondition(<<Value("a"), Value("b")>>)
    /\ Value("nn_aob") = OrAutomationCondition(<<Value("a"), Value("b")>>)
    /\ Value("n_a") = NorAutomationCondition(<<Value("a")>>)

\* left flattening: a composition whose left operand was already a node of
\* the operator's kind has that node's children followed by the right operand
LeftFlattened ==
    \A i \in 1..Len(named) :
        (named[i].op \in {"and", "or"} /\ named[i].left.kind = named[i].op) =>
            named[i].result = Composite(named[i].op,
                                        named[i].left.children \o <<named[i].right>>)

\* C13, as stated: when the left operand of & is already an AND node the
\* result is one AND node with the left node's children followed by the right
\* operand, so (c1 & c2) & c3 is an AND node with exactly the children
\* [c1, c2, c3]; the same for | and OR nodes
C13_LeftFlattening ==
    /\ LeftFlattened
    /\ IsNamed("ab_c") =>
        Value("ab_c") = AndAutomationCondition(<<Value("a"), Value("b"), Value("c")>>)
    /\ IsNamed("aob_c") =>
        Value("aob_c") = OrAutomationCondition(<<Value("a"), Value("b"), Value("c")>>)

\* C13, amended: the same, with (c1 & c2) & c3 an AND node with exactly the
\* children [c1, c2, c3] when c1 is not itself an AND node, and (c1 | c2) | c3
\* an OR node with exactly [c1, c2, c3] when c1 is not itself an OR node
C13_LeftFlatteningOfUnmerged ==
    /\ LeftFlattened
    /\ (IsNamed("ab_c") /\ Value("a").kind # "and") =>
        Value("ab_c") = AndAutomationCondition(<<Value("a"), Value("b"), Value("c")>>)
    /\ (IsNamed("aob_c") /\ Value("a").kind # "or") =>
        Value("aob_c") = OrAutomationCondition(<<Value("a"), Value("b"), Value("c")>>)

C13_Witness ==
    /\ IsNamed("aob_c")
    /\ Value("a").kind = "or"
    /\ Value("b").kind = "and"
    /\ Len(Value("ab_c").children) = 3
    /\ Value("aob_c") = OrAutomationCondition(Value("a").children \o <<Value("b"), Value("c")>>)

\* a child list with every AND node in it replaced, recursively, by its children
RECURSIVE ExpandAnd(_)
ExpandAnd(children) ==
    IF children = <<>> THEN <<>>
    ELSE (IF Head(children).kind = "and" THEN ExpandAnd(Head(children).children)
          ELSE <<Head(children)>>)
         \o ExpandAnd(Tail(children))

\* C14, as stated: for all conditions a, b, c: (a & b) & c and a & (b & c)
\* are AND nodes with identical child lists
C14_Associative ==
    IsNamed("a_bc") =>
        /\ Value("ab_c").kind = "and"
        /\ Value("a_bc").kind = "and"
        /\ Value("ab_c").children = Value("a_bc").children

\* C14, amended: for all conditions a, b, c: (a & b) & c and a & (b & c) are
\* AND nodes whose child lists are identical once every child that is an AND
\* node is replaced, recursively, by its own children; as built, a & (b & c)
\* keeps b & c as its last child
C14_AssociativeOnceExpanded ==
    IsNamed("a_bc") =>
        /\ Value("ab_c").kind = "and"
        /\ Value("a_bc").kind = "and"
        /\ ExpandAnd(Value("ab_c").children) = ExpandAnd(Value("a_bc").children)
        /\ Value("a_bc").children[Len(Value("a_bc").children)] = Value("bc")

C14_Witness ==
    /\ IsNamed("a_bc")
    /\ Value("a").kind = "and"
    /\ Len(Value("a").children) = 2
    /\ Value("b").kind = "rule"
    /\ Value("c").kind = "nor"
    /\ Len(Value("ab_c").children) = 4
    /\ Len(Value("a_bc").children) = 3

\* the condition from_evaluation was called on, and what it returned
Called == reconstructed # None

\* an AND node with exactly two children, the first an OR node, the second a NOR node
TwoBranchShape(c) ==
    /\ c.kind = "and"
    /\ Len(c.children) = 2
    /\ c.children[1].kind = "or"
    /\ c.children[2].kind = "nor"

\* C15: is_legacy is true if and only if the condition is an AND node with
\* exactly two children whose first child is an OR node and whose second is a
\* NOR node (seen through from_evaluation, which returns None exactly when
\* is_legacy is false); AND(a,b,c) and OR(AND(a,b), c) are not legacy
C15_IsLegacy ==
    Called =>
        LET c == legacy_condition[1]
        IN  /\ (reconstructed[1] # None) <=> TwoBranchShape(c)
            /\ (c.kind = "and" /\ Len(c.children) = 3) => reconstructed[1] = None
            /\ (c.kind = "or" /\ c.children # <<>> /\ c.children[1].kind = "and")
                    => reconstructed[1] = None

C15_Witness ==
    /\ Called
    /\ reconstructed[1] = None
    /\ legacy_condition[1].kind = "and"
    /\ Len(legacy_condition[1].children) = 3
    /\ legacy_condition[1].children[1].kind = "or"
    /\ legacy_condition[1].children[2].kind = "nor"

\* C16: from_evaluation returns None for every condition that is not legacy;
\* for every legacy condition it returns an evaluation of that condition with
\* exactly two child evaluations, the first for the materialize (OR) branch
\* and the second for the skip (NOR) branch
C16_FromEvaluation ==
    Called =>
        LET c == legacy_condition[1]
        IN  IF ~TwoBranchShape(c) THEN reconstructed[1] = None
            ELSE /\ reconstructed[1] # None
                 /\ reconstructed[1][1].condition = c
                 /\ Len(reconstructed[1][1].child_evaluations) = 2
                 /\ reconstructed[1][1].child_evaluations[1].condition = c.children[1]
                 /\ reconstructed[1][1].child_evaluations[1].condition.kind = "or"
                 /\ reconstructed[1][1].child_evaluations[2].condition = c.children[2]
                 /\ reconstructed[1][1].child_evaluations[2].condition.kind = "nor"

C16_Witness ==
    /\ Called
    /\ reconstructed[1] # None
    /\ Len(legacy_condition[1].children[1].children) = 2
    /\ Len(reconstructed[1][1].child_evaluations[1].child_evaluations) = 1
    /\ Len(reconstructed[1][1].child_evaluations[2].child_evaluations) = 1
    /\ reconstructed[1][1].child_evaluations[2].child_evaluations[1].results # <<>>

\* the generators whose body has taken the queue
Started == {g \in 1..Len(generators) : generators[g].started}

\* the logged events, by position, that generator g took when it started
TakenBy(g) == SubSeq(logged, generators[g].since + 1, generators[g].upto)

RECURSIVE LeafPaths(_)
LeafPaths(cond) ==
    IF cond.kind = "rule" THEN << <<>> >>
    ELSE LET RECURSIVE Below(_)
             Below(n) ==
                IF n = 0 THEN <<>>
                ELSE LET sub == LeafPaths(cond.children[n])
                     IN  Below(n - 1) \o [j \in 1..Len(sub) |-> <<n>> \o sub[j]]
         IN  Below(Len(cond.children))

\* the node of a tree at a position
RECURSIVE NodeAt(_, _)
NodeAt(cond, path) ==
    IF path = <<>> THEN cond ELSE NodeAt(cond.children[Head(path)], Tail(path))

\* the positions of the rule nodes whose rule was invoked so far, in call order
CalledPaths == [i \in 1..Len(TreeRuleCalls) |-> TreeRuleCalls[i].node]

IsPrefix(q, p) == Len(q) <= Len(p) /\ SubSeq(p, 1, Len(q)) = q

\* C21: in a pass that does not raise, the rule of every RuleCondition node is
\* invoked exactly once per node occurrence, in depth-first left-to-right
\* order: the calls made so far are the first rule nodes of the tree in that
\* order, all of them once the root has returned, and every rule node below a
\* child that has returned to its parent has been invoked
C21_EachRuleOnceInOrder ==
    LET expected == LeafPaths(condition)
    IN  /\ Len(CalledPaths) <= Len(expected)
        /\ CalledPaths = SubSeq(expected, 1, Len(CalledPaths))
        /\ \A i \in 1..Len(TreeRuleCalls) :
            /\ NodeAt(condition, TreeRuleCalls[i].node).kind = "rule"
            /\ NodeAt(condition, TreeRuleCalls[i].node).rule = TreeRuleCalls[i].rule
        /\ condition_evaluation # None => CalledPaths = expected
        /\ \A i \in 1..Len(stack) : \A k \in 1..Len(stack[i].child_evaluations) :
            LET q == [j \in 1..(i - 1) |-> NextChild(stack[j])] \o <<k>>
            IN  \A n \in 1..Len(expected) :
                    IsPrefix(q, expected[n]) => n <= Len(CalledPaths)

C21_Witness ==
    /\ pc = "done"
    /\ Len(condition.children) = 2
    /\ condition.children[1].kind \in CompositeKinds
    /\ condition.children[2].kind = "rule"
    /\ CalledPaths = << <<1, 1>>, <<2>> >>

IsDiscardCall(call) == call.rule = DiscardRuleName

\* the evaluations of the discard rule so far
DiscardCalls == SelectSeq(rule_calls, IsDiscardCall)

\* C22: when a cap is configured the discard rule is evaluated exactly once,
\* only after the whole condition tree has been evaluated, and with candidate
\* scope exactly the root evaluation's true_subset
C22_DiscardOnceAfterTree ==
    max_materializations_per_minute # None =>
        /\ Len(DiscardCalls) <= 1
        /\ (Len(DiscardCalls) = 1) <=> (pc \in {"done", "converted"})
        /\ Len(DiscardCalls) = 1 =>
            /\ IsDiscardCall(rule_calls[Len(rule_calls)])
            /\ CalledPaths = LeafPaths(condition)
            /\ stack = <<>>
            /\ condition_evaluation # None
            /\ DiscardCalls[1].candidate_subset = condition_evaluation[1].true_subset

C22_Witness ==
    /\ pc = "done"
    /\ max_materializations_per_minute = Some(1)
    /\ Len(TreeRuleCalls) = 2
    /\ Len(DiscardCalls) = 1
    /\ DiscardCalls[1].candidate_subset = {2}
    /\ context.candidate_subset = {1, 2}

\* C23: when max_materializations_per_minute is None the discard rule is
\* never evaluated, the returned discard subset and the evaluation's
\* discard_subset are empty and the cursor is built with an empty
\* to_discard; when the field is not given the cap is 1
C23_NoCapNoDiscard ==
    /\ max_materializations_per_minute = None =>
        /\ DiscardCalls = <<>>
        /\ returned # None =>
            /\ returned[1].to_discard = empty_subset
            /\ returned[1].condition_evaluation.discard_subset = Some(empty_subset)
            /\ returned[1].cursor =
                 get_new_asset_cursor(context, condition_evaluation[1].true_subset, empty_subset)
    /\ cap_argument = None => max_materializations_per_minute = Some(1)

C23_Witness ==
    /\ pc = "done"
    /\ cap_argument = Some(None)
    /\ max_materializations_per_minute = None
    /\ condition_evaluation[1].true_subset = {1, 2}
    /\ returned[1].cursor.to_materialize = {1, 2}

PathOfFrame(i) == [j \in 1..(i - 1) |-> NextChild(stack[j])]

\* every active call still holds the context value it last passed to a child
\* (or the one it received, before its first child), each callee received
\* that value, and the nodes under evaluation are those of the given tree
CallersValuesKept ==
    /\ \A i \in 1..Len(stack) :
        /\ stack[i].condition = NodeAt(condition, PathOfFrame(i))
        /\ stack[i].context =
             IF stack[i].child_contexts = <<>> THEN stack[i].scope
             ELSE stack[i].child_contexts[Len(stack[i].child_contexts)]
        /\ i < Len(stack) => stack[i + 1].scope = stack[i].context
    /\ stack # <<>> => stack[1].scope = get_root_condition_context(context)
    /\ condition_evaluation # None => condition_evaluation[1].condition = condition
    /\ returned # None => returned[1].cursor.previous = context.cursor

\* C25: evaluating a condition tree and the top-level evaluator leaves the
\* caller's inputs unchanged: the evaluation context passed in, its candidate
\* subset, the previous cursor and the condition tree are the same values
\* after evaluate as before; narrowed scopes are carried in new context values
C25_InputsUnchanged ==
    /\ []CallersValuesKept
    /\ [][context' = context /\ condition' = condition]_vars

C25_Witness ==
    /\ pc = "tree"
    /\ Len(stack) = 1
    /\ stack[1].condition.kind = "or"
    /\ Len(stack[1].child_evaluations) = 1
    /\ stack[1].child_evaluations[1].condition.kind = "and"
    /\ Len(stack[1].child_evaluations[1].child_evaluations) = 2
    /\ stack[1].child_evaluations[1].child_evaluations[2].candidate_subset = {1}
    /\ stack[1].context.candidate_subset = {1, 2}

\* C26: legacy count accounting in to_evaluation: for a legacy policy
\* AND(OR(..), NOR(..)) evaluated by the engine, with the discard subset
\* within the root true_subset, num_skipped is the size of the materialize
\* branch's true_subset minus that of the skip branch's, is never negative,
\* and num_requested + num_skipped + num_discarded is the size of the
\* materialize branch's true_subset; for a non-legacy condition num_skipped is 0
C26_LegacyCounts ==
    (asset_evaluation # None /\ returned[1].to_discard \subseteq condition_evaluation[1].true_subset) =>
        LET record == asset_evaluation[1]
            root == returned[1].condition_evaluation
        IN  IF TwoBranchShape(condition)
            THEN LET materialize == Cardinality(root.child_evaluations[1].true_subset)
                     skip == Cardinality(root.child_evaluations[2].true_subset)
                 IN  /\ record.num_skipped = materialize - skip
                     /\ record.num_skipped >= 0
                     /\ record.num_requested + record.num_skipped + record.num_discarded
                            = materialize
                     /\ record.num_discarded = Cardinality(returned[1].to_discard)
            ELSE record.num_skipped = 0

C26_Witness ==
    /\ asset_evaluation # None
    /\ TwoBranchShape(condition)
    /\ Len(condition.children[1].children) = 1
    /\ Len(condition.children[2].children) = 1
    /\ returned[1].condition_evaluation.child_evaluations[1].true_subset = {1, 2}
    /\ context.candidate_subset = {1}
    /\ asset_evaluation[1].num_skipped = 1
    /\ asset_evaluation[1].num_discarded = 1
    /\ asset_evaluation[1].num_requested = 0

\* C27: for every AND node and every NOR node, whatever subsets its children
\* return (also partitions outside the scope they were given), the node's
\* true_subset is within the candidate scope the node received, while it
\* runs and when it returns
C27_TrueSubsetWithinScope ==
    /\ \A r \in ReturnedOfKind("and") \cup ReturnedOfKind("nor") :
        r.evaluation.true_subset \subseteq r.scope
    /\ \A i \in 1..Len(stack) :
        stack[i].condition.kind \in {"and", "nor"} =>
            stack[i].true_subset \subseteq stack[i].scope.candidate_subset

C27_Witness ==
    \E r \in ReturnedOfKind("and") :
        /\ r.scope = {1}
        /\ Len(r.evaluation.child_evaluations) = 2
        /\ r.evaluation.child_evaluations[1].true_subset = {1, 2}
        /\ r.evaluation.child_evaluations[2].true_subset = {1, 2}
        /\ r.evaluation.true_subset = {1}

\* C28: double negation preserves the result: for every condition c (rule,
\* AND, OR or NOR) and every context, with rules that are functions of their
\* context, evaluating ~(~c) gives the same true_subset as evaluating c
C28_DoubleNegation ==
    both_evaluations # None =>
        both_evaluations[1].twice.true_subset = both_evaluations[1].direct.true_subset

C28_Witness ==
    /\ both_evaluations # None
    /\ negation_of[1].condition.kind = "and"
    /\ Len(negation_of[1].condition.children) = 2
    /\ negated[1] = NorAutomationCondition(<<negation_of[1].condition>>)
    /\ negated[2] = OrAutomationCondition(<<negation_of[1].condition>>)
    /\ negation_of[1].context.candidate_subset = {1, 2}
    /\ both_evaluations[1].direct.true_subset = {2}
    /\ both_evaluations[1].twice.condition # both_evaluations[1].direct.condition

\* C29: an AssetExecutionContext shares one event queue with the
\* OpExecutionContext it wraps: events logged with log_event on the asset
\* context are reported by has_events and yielded by consume_events called on
\* the asset context, exactly as when these are called on the wrapped context
C29_AssetSharesQueue ==
    /\ last_call = "asset.has_events" => reported = IF has_events THEN "True" ELSE "False"
    /\ \A g \in 1..Len(generators) :
        (generators[g].self = "asset" /\ generators[g].started) => ~generators[g].raised

\* the RuleCondition children of a branch whose rule's snapshot is in the record
RecordedRuleChildren(branch, record) ==
    LET snapshots == IF record.rule_snapshots = None THEN {} ELSE record.rule_snapshots[1]
        Recorded(child) == child.kind = "rule" /\ [class_name |-> child.rule] \in snapshots
    IN  SelectSeq(branch.children, Recorded)

\* C30: for a legacy condition, from_evaluation reconstructs under each branch
\* one leaf evaluation per RuleCondition child of that branch whose rule
\* snapshot occurs in the record's rule_snapshots, in the branch's declaration
\* order and for no other child; every reconstructed branch and leaf has an
\* empty true_subset, the root's true_subset is the record's evaluated subset,
\* and a leaf's candidate_subset is empty for a materialize-type rule and the
\* record's evaluated subset otherwise
C30_ReconstructedLeaves ==
    (Called /\ reconstructed[1] # None) =>
        LET root == reconstructed[1][1]
            record == legacy_evaluation[1]
        IN  /\ root.true_subset = record.evaluated_subset
            /\ \A b \in 1..2 :
                LET branch == root.child_evaluations[b]
                    expected == RecordedRuleChildren(legacy_condition[1].children[b], record)
                IN  /\ branch.true_subset = {}
                    /\ Len(branch.child_evaluations) = Len(expected)
                    /\ \A i \in 1..Len(expected) :
                        LET leaf == branch.child_evaluations[i]
                        IN  /\ leaf.condition = expected[i]
                            /\ leaf.true_subset = {}
                            /\ leaf.child_evaluations = <<>>
                            /\ leaf.candidate_subset =
                                 IF decision_type(expected[i].rule) = "MATERIALIZE" THEN {}
                                 ELSE record.evaluated_subset

C30_Witness ==
    /\ Called
    /\ reconstructed[1] # None
    /\ legacy_evaluation[1].rule_snapshots = Some({[class_name |-> "r2"]})
    /\ legacy_evaluation[1].evaluated_subset = {1, 2}
    /\ legacy_condition[1].children[1].children = <<RuleCondition("r1"), RuleCondition("r2")>>
    /\ Len(legacy_condition[1].children[2].children) = 2
    /\ legacy_condition[1].children[2].children[1].kind = "and"
    /\ legacy_condition[1].children[2].children[2] = RuleCondition("r2")
    /\ Len(reconstructed[1][1].child_evaluations[1].child_evaluations) = 1
    /\ Len(reconstructed[1][1].child_evaluations[2].child_evaluations) = 1
    /\ reconstructed[1][1].child_evaluations[1].child_evaluations[1].candidate_subset = {1, 2}

====
